---- MODULE Spec2Model ----
(***************************************************************************)
(* nsDiskModule (netwerk/base/public/nsIUrl.h, second half of the file):   *)
(* a lazily opened, file-backed hash database that maps the address (URL)  *)
(* of an nsCacheObject to the object's serialized info blob.               *)
(*                                                                         *)
(* The state is the store object (m_pDB), the function-local "static DBT   *)
(* key,data" of AddObject (which object's buffers it points to, and        *)
(* whether they have been freed),                                          *)
(* the database as seen through the handle (view) and as it is on stable   *)
(* storage (disk), and a record of the last call (last).  The cache        *)
(* objects are the callers': each call draws its argument.  What a call    *)
(* returns and which database calls it makes is an operator of the state   *)
(* and the call's inputs (AddObjectCall, ContainsCall, GetObjectCall, ...).*)
(* probe, okPut and everPut are history variables for one address: Spec    *)
(* watches none, SpecHist watches each address in turn.                    *)
(*                                                                         *)
(* TrackingProtectionPolicy (EngineSession.kt) is a second, independent    *)
(* program: policy and query are its state and SpecPolicy its behaviours.  *)
(*                                                                         *)
(* AudioBufferSourceNode (AudioBufferSourceNode.cpp) is a third: node,     *)
(* engine, stream and out are its state and SpecAudio its behaviours.      *)
(***************************************************************************)
EXTENDS Integers, Sequences, FiniteSets, TLC

\* ----------------------------------------------------------------- bounds
MaxChar == 2      \* URL characters are 1..MaxChar
MaxUrlLen == 1    \* longest URL string
MaxByte == 1      \* info bytes are 1..MaxByte
MaxBlobLen == 1   \* longest info blob
MaxOpens == 2     \* cap on successful dbopen calls of one store object
MaxDirty == 1     \* slots a failed sync may leave unwritten

\* --------------------------------------------------------------- values
RECURSIVE SeqsUpTo(_, _)
SeqsUpTo(S, n) ==
    IF n = 0 THEN {<<>>}
    ELSE LET shorter == SeqsUpTo(S, n - 1)
         IN shorter \cup {Append(s, c) : s \in shorter, c \in S}

\* C strings: "" is <<>>.
Urls == SeqsUpTo(1..MaxChar, MaxUrlLen)
Blobs == SeqsUpTo(1..MaxByte, MaxBlobLen)

\* A const char*: null, or a string.
NullStr == [null |-> TRUE, s |-> <<>>]
Str(s) == [null |-> FALSE, s |-> s]
Ptrs == {NullStr} \cup {Str(s) : s \in Urls}

\* PL_strlen
PL_strlen(s) == Len(s)

\* A database slot: absent, or a record of bytes.
Absent == [present |-> FALSE, data |-> <<>>]
Rec(d) == [present |-> TRUE, data |-> d]
EmptyDB == [k \in Urls |-> Absent]

\* The history watches no address.
NoProbe == <<0>>

\* The addresses the history may watch: the non-empty ones, one for each
\* length (the characters of an address are interchangeable).
Watched == {u \in Urls : u # <<>> /\ \A i \in 1..Len(u) : u[i] = 1}

\* nsCacheManager module tags
MEM == "MEM"
DISK == "DISK"

\* ------------------------------------------------- nsCacheObject (caller)
\* An nsCacheObject* argument.  added: the object is the one the static DBT
\* of AddObject points to (the object of the last AddObject that got to the
\* put); otherwise it is an object AddObject has not seen.
NullObj == [null |-> TRUE, addr |-> NullStr, info |-> <<>>, added |-> FALSE]
Object(p, b, a) == [null |-> FALSE, addr |-> p, info |-> b, added |-> a]
Objects ==
    {NullObj} \cup {Object(p, b, FALSE) : p \in Ptrs, b \in Blobs}
              \cup {Object(Str(s), b, TRUE) : s \in Urls, b \in Blobs}

\* nsCacheObject::InfoSize
InfoSize(ob) == Len(ob.info)

\* nsCacheObject::Info(void*): the new object reads its info from the record.
InfoFromData(d) == d

\* static DBT key,data: zeroed, or pointing to the buffers of an object.
NullDBT == [set |-> FALSE, addr |-> <<>>, freed |-> FALSE]
DBT(a, f) == [set |-> TRUE, addr |-> a, freed |-> f]

VARIABLES
    alive,      \* the nsDiskModule object exists (constructed, not destroyed)
    m_pDB,      \* nsDiskModule::m_pDB: 0 is null, n > 0 the n-th handle opened
    opens,      \* successful dbopen calls made by this store object
    handles,    \* handles opened by this store object and not closed
    openable,   \* dbopen of DiskCacheDBFilename() would succeed
    view,       \* database contents as read and written through a handle
    disk,       \* database contents on stable storage
    staticDBT,  \* AddObject's static key/data: unset, or the address of the
                \* object they point to and whether its buffers are freed
    last,       \* what the last call did
    probe,      \* history: the address the history is kept for
    okPut,      \* history: the info of the last AddObject(probe) that returned true
    everPut,    \* history: some AddObject(probe) call was made
    policy,     \* EngineSession.kt: the TrackingProtectionPolicy last made
    query,      \* EngineSession.kt: the last contains(category) call on it
    node,       \* AudioBufferSourceNode: the node's members
    engine,     \* AudioBufferSourceNodeEngine: the engine's members
    stream,     \* the node's stream: blocks produced, finished, trapped
    out         \* what the last call on the node or its engine did

storeVars == <<alive, m_pDB, opens, handles, openable, view, disk, staticDBT,
               last, probe, okPut, everPut>>

audioVars == <<node, engine, stream, out>>

vars == <<alive, m_pDB, opens, handles, openable, view, disk, staticDBT,
          last, probe, okPut, everPut, policy, query,
          node, engine, stream, out>>

\* ------------------------------------------------------------ the record
\* The last call: its name and, for AddObject, the address of the object it
\* was given, what it returned and the tag it left on the object.
Call(op, url, ok, tag) == [op |-> op, url |-> url, ok |-> ok, tag |-> tag]

NoCall(op) == Call(op, NullStr, FALSE, MEM)

\* What a call hands back: its return value (ok: PR_TRUE or a non-null
\* object, blob: the info of the object returned), the database calls it
\* made in order, and whether one of them went through a null handle.
Result(ok, blob, calls, nullCall) ==
    [ok |-> ok, blob |-> blob, calls |-> calls, nullCall |-> nullCall]

\* ---------------------------------------------------------- the database
\* DB->put with flags 0: insert or overwrite the first size bytes of data.
DbPut(db, key, data, size) == [db EXCEPT ![key] = Rec(SubSeq(data, 1, size))]

\* DB->get: 0 found, 1 not found, -1 error.
DbGet(db, key, err) == IF err THEN -1 ELSE IF db[key].present THEN 0 ELSE 1

\* The slots a sync has to write.
Dirty(dsk, db) == {k \in Urls : db[k] # dsk[k]}

\* DB->sync: on success the file holds what the handle holds; a failed sync
\* may have written any of the slots.
DbSync(dsk, db, ok, flushed) ==
    IF ok THEN db ELSE [k \in Urls |-> IF k \in flushed THEN db[k] ELSE dsk[k]]

\* A sync of db may fail: the failures injected leave few slots unwritten.
SyncMayFail(dsk, db) == Cardinality(Dirty(dsk, db)) <= MaxDirty

Status(ok) == IF ok THEN 0 ELSE 1

\* ------------------------------------------------------------------ InitDB
\* Variant: InitDB that calls dbopen whether or not a handle exists.
InitDBAlwaysOpens(h) == TRUE

\* if (m_pDB) return PR_TRUE; otherwise dbopen is called.
InitDBCallsOpen(h) == h = 0

\* Variant: InitDB that returns the handle it finds and never calls dbopen.
InitDBNoRetry(h) == h

\* Variant: InitDB that drops the handle it finds and opens the file again.
InitDBReopens(h) == IF openable /\ opens < MaxOpens THEN opens + 1 ELSE 0

\* m_pDB after InitDB.
InitDB(h) ==
    IF ~InitDBCallsOpen(h) THEN h
    ELSE IF openable /\ opens < MaxOpens THEN opens + 1 ELSE 0

\* Whether this InitDB opened a new handle.
Opened(h) == InitDBCallsOpen(h) /\ InitDB(h) # 0

\* The database calls of InitDB.
OpenCalls(h) == IF InitDBCallsOpen(h) THEN <<"dbopen">> ELSE <<>>

\* The store after the lazy open of a public operation.
LazyOpen(h) ==
    /\ m_pDB' = InitDB(h)
    /\ opens' = IF Opened(h) THEN opens + 1 ELSE opens
    /\ handles' = IF Opened(h) THEN handles \cup {InitDB(h)} ELSE handles
    /\ alive' = alive

\* ------------------------------------------------------------ process, env
\* The process dies and a new one starts: a new store object, a zeroed static
\* DBT, a new heap, and the database as it is on stable storage.
ProcessRestart ==
    /\ alive' = TRUE
    /\ m_pDB' = 0
    /\ opens' = 0
    /\ handles' = {}
    /\ view' = disk
    /\ disk' = disk
    /\ staticDBT' = NullDBT
    /\ UNCHANGED <<openable, probe, okPut, everPut, policy, query,
          node, engine, stream, out>>

\* --------------------------------------------------------------- AddObject
\* if (io_pObject && io_pObject->Address())
AddObjectAccepts(ob) == ~ob.null /\ ~ob.addr.null

\* The object the static DBT points to has the address that was read from it.
Passable(ob) == ob.added => (staticDBT.set /\ staticDBT.addr = ob.addr.s)

\* PR_FREEIF(key.data); PR_FREEIF(data.data) frees buffers that were freed before.
DoubleFree == staticDBT.set /\ staticDBT.freed

\* PR_FREEIF frees the buffers the static DBT points to: handed the same
\* object again, AddObject reads its address and info from freed buffers.
Dangling(ob) == ob.added

\* key.data / PL_strlen(key.data): the strings a read of the address can give.
\* A freed buffer reads as anything.
KeyReads(ob, dangling) == IF dangling THEN Urls ELSE {ob.addr.s}

\* data.data: a freed buffer reads as any bytes of the object's InfoSize().
DataReads(ob, dangling) ==
    IF dangling THEN {b \in Blobs : Len(b) = InfoSize(ob)} ELSE {ob.info}

\* Variant: the sync is issued whatever the put returned.
SyncsAlways(status) == TRUE

\* if (status == 0) status = sync
SyncsAfterPut(status) == status = 0

\* Variant: AddObject that reports success whatever the status.
AddObjectResultTrue(status) == TRUE

\* return (status == 0)
AddObjectResult(status) == status = 0

\* The object's tag before the call; io_pObject->Module(nsCacheManager::DISK)
\* comes before the put.
TagBefore(ob) == IF ob.added THEN DISK ELSE MEM
TagAfter(ob, status) == DISK

\* nsDiskModule::AddObject on object ob, the address read as gk, the info as
\* gv, the put and the sync ending as putOk and syncOk say: what it returns,
\* the database calls it makes, and the tag it leaves on the object.
AddObjectCall(ob, gk, gv, putOk, syncOk) ==
    LET h == InitDB(m_pDB)
        pre == OpenCalls(m_pDB)
    IN IF h = 0 \/ ~AddObjectAccepts(ob)
       THEN [ret |-> Result(FALSE, <<>>, pre, FALSE), tag |-> TagBefore(ob),
             put |-> FALSE, synced |-> FALSE]
       ELSE LET st1 == Status(putOk)
                synced == SyncsAfterPut(st1)
                st2 == IF synced THEN Status(syncOk) ELSE st1
            IN [ret |-> Result(AddObjectResult(st2), <<>>,
                               pre \o <<"put">> \o
                                   (IF synced THEN <<"sync">> ELSE <<>>),
                               FALSE),
                tag |-> TagAfter(ob, st2),
                put |-> st1 = 0, synced |-> synced]

\* History kept for the properties: how the AddObject call ended.
Record(ob, ret) ==
    /\ probe' = probe
    /\ IF ~ob.null /\ ~ob.addr.null /\ ob.addr.s = probe
       THEN /\ everPut' = TRUE
            /\ okPut' = IF ret THEN Rec(ob.info) ELSE okPut
       ELSE UNCHANGED <<everPut, okPut>>

\* The database after the call c: the put, then the sync.
AddObjectWrite(ob, c, gk, gv, syncOk, flushed) ==
    LET db1 == IF c.put THEN DbPut(view, gk, gv, InfoSize(ob)) ELSE view
    IN /\ view' = db1
       /\ disk' = IF c.synced THEN DbSync(disk, db1, syncOk, flushed) ELSE disk

\* The call with its inputs drawn: the state it leaves.
AddObjectStep(ob, gk, gv, putOk, syncOk, flushed) ==
    LET c == AddObjectCall(ob, gk, gv, putOk, syncOk)
    IN /\ last' = Call("AddObject", ob.addr, c.ret.ok, c.tag)
       /\ Record(ob, c.ret.ok)
       /\ AddObjectWrite(ob, c, gk, gv, syncOk, flushed)

AddObject(ob) ==
    /\ alive
    /\ Passable(ob)
    /\ LazyOpen(m_pDB)
    /\ UNCHANGED <<openable, policy, query,
          node, engine, stream, out>>
    /\ IF InitDB(m_pDB) = 0 \/ ~AddObjectAccepts(ob)
       THEN /\ AddObjectStep(ob, <<>>, <<>>, TRUE, TRUE, {})
            /\ UNCHANGED staticDBT
       ELSE /\ staticDBT' = DBT(ob.addr.s, Dangling(ob))
            /\ \E gk \in KeyReads(ob, Dangling(ob)), gv \in DataReads(ob, Dangling(ob)) :
                  \/ AddObjectStep(ob, gk, gv, TRUE, TRUE, {})
                  \/ AddObjectStep(ob, gk, gv, FALSE, TRUE, {})
                  \/ /\ SyncMayFail(disk, DbPut(view, gk, gv, InfoSize(ob)))
                     /\ \E flushed \in SUBSET Dirty(disk, DbPut(view, gk, gv, InfoSize(ob))) :
                           AddObjectStep(ob, gk, gv, TRUE, FALSE, flushed)

\* A second free of the same buffers may end the process inside AddObject.
AddObjectAborts(ob) ==
    /\ alive
    /\ Passable(ob)
    /\ InitDB(m_pDB) # 0
    /\ AddObjectAccepts(ob)
    /\ DoubleFree
    /\ ProcessRestart
    /\ last' = Call("abort", ob.addr, FALSE, MEM)

\* ---------------------------------------------------------------- GetObject
\* Variant: GetObject without the !*i_url test.
GetObjectRejectsNullOnly(h, url) == h = 0 \/ url.null

\* if (!m_pDB || !i_url || !*i_url) return 0;
GetObjectRejects(h, url) == h = 0 \/ url.null \/ PL_strlen(url.s) = 0

\* nsDiskModule::GetObject(const char*) once the lazy open is done.
GetObjectBody(h, url, err) ==
    IF GetObjectRejects(h, url) THEN Result(FALSE, <<>>, <<>>, FALSE)
    ELSE IF h = 0 THEN Result(FALSE, <<>>, <<"get">>, TRUE)
    ELSE IF 0 = DbGet(view, url.s, err)
    THEN Result(TRUE, InfoFromData(view[url.s].data), <<"get">>, FALSE)
    ELSE Result(FALSE, <<>>, <<"get">>, FALSE)

\* Prefix the database calls of the lazy open.
WithOpen(r) == [r EXCEPT !.calls = OpenCalls(m_pDB) \o r.calls]

\* nsDiskModule::GetObject(const char*): what it returns and the calls it makes.
GetObjectCall(url, err) == WithOpen(GetObjectBody(InitDB(m_pDB), url, err))

GetObject(url, err) ==
    /\ alive
    /\ err => "get" \in {GetObjectCall(url, err).calls[i] :
                            i \in DOMAIN GetObjectCall(url, err).calls}
    /\ LazyOpen(m_pDB)
    /\ last' = NoCall("GetObject")
    /\ UNCHANGED <<openable, view, disk, staticDBT, probe, okPut, everPut, policy, query,
          node, engine, stream, out>>

\* Variant: GetObject(const PRUint32) that returns the i-th record there is.
GetObjectByIndexFinds(i) ==
    WithOpen(Result(Cardinality({k \in Urls : view[k].present}) > i, <<>>, <<>>, FALSE))

\* nsDiskModule::GetObject(const PRUint32): return 0 on both paths.
GetObjectByIndexCall(i) == WithOpen(Result(FALSE, <<>>, <<>>, FALSE))

GetObjectByIndex(i) ==
    /\ alive
    /\ LazyOpen(m_pDB)
    /\ last' = NoCall("GetObjectByIndex")
    /\ UNCHANGED <<openable, view, disk, staticDBT, probe, okPut, everPut, policy, query,
          node, engine, stream, out>>

\* ----------------------------------------------------------------- Contains
\* Variant: Contains without the !m_pDB test.
ContainsRejectsNoHandleTest(h, url) == url.null \/ PL_strlen(url.s) = 0

\* if (!m_pDB || !i_url || !*i_url) return PR_FALSE;
ContainsRejects(h, url) == h = 0 \/ url.null \/ PL_strlen(url.s) = 0

\* Variant: Contains that takes every status but "not found" as a hit.
ContainsResultNotMissing(status) == status # 1

\* return (status == 0)
ContainsResult(status) == status = 0

\* Variant: Contains that syncs the database after its get.
ContainsCallSyncs(url, err) ==
    Result(~err /\ ~url.null /\ view[url.s].present, <<>>, <<"get", "sync">>, FALSE)

\* nsDiskModule::Contains(const char*): what it returns and the calls it makes.
ContainsCall(url, err) ==
    LET h == InitDB(m_pDB)
    IN WithOpen(IF ContainsRejects(h, url) THEN Result(FALSE, <<>>, <<>>, FALSE)
                ELSE IF h = 0 THEN Result(FALSE, <<>>, <<"get">>, TRUE)
                ELSE Result(ContainsResult(DbGet(view, url.s, err)), <<>>,
                            <<"get">>, FALSE))

Contains(url, err) ==
    /\ alive
    /\ err => "get" \in {ContainsCall(url, err).calls[i] :
                            i \in DOMAIN ContainsCall(url, err).calls}
    /\ LazyOpen(m_pDB)
    /\ last' = NoCall("Contains")
    /\ UNCHANGED <<openable, view, disk, staticDBT, probe, okPut, everPut, policy, query,
          node, engine, stream, out>>

\* if (!m_pDB || !io_pObject) return PR_FALSE;
ContainsObjectRejects(h, ob) == h = 0 \/ ob.null

\* The buffers of the object the static DBT points to are live until an
\* AddObject of the same object has freed them.
MayBeLive(ob) == ~ob.added \/ ~staticDBT.freed
MayBeFreed(ob) == ob.added /\ staticDBT.freed

\* The string GetObject is handed: io_pObject->Address(), read as gk.
AddressArg(ob, gk) == IF ob.addr.null THEN NullStr ELSE Str(gk)

\* nsDiskModule::Contains(nsCacheObject*): what it returns and the calls it
\* makes.  The assignment to io_pObject changes the parameter only: the
\* caller's pointer is as it was, and only the boolean comes back.
ContainsObjectCall(ob, gk, err) ==
    LET h == InitDB(m_pDB)
    IN WithOpen(IF ContainsObjectRejects(h, ob) THEN Result(FALSE, <<>>, <<>>, FALSE)
                ELSE [GetObjectBody(h, AddressArg(ob, gk), err) EXCEPT !.blob = <<>>])

\* The object the caller's pointer refers to after Contains(nsCacheObject*):
\* io_pObject is a parameter passed by value, so io_pObject = pTemp on a hit
\* is lost at the return and the caller has the object it handed over.
CallerObjectAfter(ob, hit) == ob

\* The strings a read of io_pObject->Address() can give.
AddressReads(ob, dangling) ==
    IF ob.null \/ ob.addr.null THEN {<<>>} ELSE KeyReads(ob, dangling)

ContainsObject(ob, dangling, gk, err) ==
    /\ alive
    /\ Passable(ob)
    /\ IF dangling THEN MayBeFreed(ob) ELSE MayBeLive(ob)
    /\ gk \in AddressReads(ob, dangling)
    /\ err => "get" \in {ContainsObjectCall(ob, gk, err).calls[i] :
                            i \in DOMAIN ContainsObjectCall(ob, gk, err).calls}
    /\ LazyOpen(m_pDB)
    /\ last' = NoCall("ContainsObject")
    /\ UNCHANGED <<openable, view, disk, staticDBT, probe, okPut, everPut, policy, query,
          node, engine, stream, out>>

\* ------------------------------------------------------- construct, destroy
\* nsDiskModule::nsDiskModule: m_pDB(0)
Construct ==
    /\ ~alive
    /\ alive' = TRUE
    /\ m_pDB' = 0
    /\ opens' = 0
    /\ handles' = {}
    /\ last' = NoCall("Construct")
    /\ UNCHANGED <<openable, view, disk, staticDBT, probe, okPut, everPut, policy, query,
          node, engine, stream, out>>

\* Variant: a destructor that syncs and closes whatever m_pDB is.
DestructorAlwaysCloses(h) == TRUE

\* if (m_pDB): whether the destructor touches the database.
DestructorCloses(h) == h # 0

\* nsDiskModule::~nsDiskModule: the database calls it makes.
DestroyCall == IF DestructorCloses(m_pDB) THEN <<"sync", "close">> ELSE <<>>

\* nsDiskModule::~nsDiskModule: sync, close, m_pDB = 0.  The view of a closed
\* handle is gone; a later open reads the file.
Destroy(syncOk, flushed) ==
    /\ alive
    /\ alive' = FALSE
    /\ opens' = 0
    /\ IF DestructorCloses(m_pDB)
       THEN /\ IF syncOk THEN flushed = {}
               ELSE SyncMayFail(disk, view) /\ flushed \subseteq Dirty(disk, view)
            /\ disk' = DbSync(disk, view, syncOk, flushed)
            /\ view' = disk'
            /\ handles' = handles \ {m_pDB}
            /\ m_pDB' = 0
       ELSE /\ syncOk /\ flushed = {}
            /\ UNCHANGED <<disk, view, handles, m_pDB>>
    /\ last' = NoCall("Destroy")
    /\ UNCHANGED <<openable, staticDBT, probe, okPut, everPut, policy, query,
          node, engine, stream, out>>

\* -------------------------------------------------------------- environment
\* The process is killed at any point between two calls.
Crash ==
    /\ ProcessRestart
    /\ last' = NoCall("Crash")

\* The backing path becomes openable or stops being so.
SetOpenable ==
    /\ openable' = ~openable
    /\ last' = NoCall("SetOpenable")
    /\ UNCHANGED <<alive, m_pDB, opens, handles, view, disk, staticDBT,
                   probe, okPut, everPut, policy, query,
          node, engine, stream, out>>

\* ------------------------------------------- TrackingProtectionPolicy
\* EngineSession.kt, TrackingProtectionPolicy.  Kotlin Int: the sums below
\* stay far below 2^31.
MaxSelect == 2    \* most categories handed to select(vararg categories)

\* x shl n
Shl(x, n) == x * 2 ^ n

NONE == 0
AD == Shl(1, 1)
ANALYTICS == Shl(1, 2)
SOCIAL == Shl(1, 3)
CONTENT == Shl(1, 4)
TEST == Shl(1, 5)
CRYPTOMINING == Shl(1, 6)
FINGERPRINTING == Shl(1, 7)
SAFE_BROWSING_MALWARE == Shl(1, 10)
SAFE_BROWSING_UNWANTED == Shl(1, 11)
SAFE_BROWSING_HARMFUL == Shl(1, 12)
SAFE_BROWSING_PHISHING == Shl(1, 13)

SAFE_BROWSING_ALL ==
    SAFE_BROWSING_MALWARE + SAFE_BROWSING_UNWANTED + SAFE_BROWSING_HARMFUL
        + SAFE_BROWSING_PHISHING

RECOMMENDED == AD + ANALYTICS + SOCIAL + TEST + SAFE_BROWSING_ALL

ALL == RECOMMENDED + CRYPTOMINING + FINGERPRINTING + CONTENT

\* The category constants a caller can name.
Categories ==
    {AD, ANALYTICS, SOCIAL, CONTENT, TEST, CRYPTOMINING, FINGERPRINTING,
     SAFE_BROWSING_MALWARE, SAFE_BROWSING_UNWANTED, SAFE_BROWSING_HARMFUL,
     SAFE_BROWSING_PHISHING}

\* a and b on non-negative Ints
RECURSIVE BitAnd(_, _)
BitAnd(a, b) ==
    IF a = 0 \/ b = 0 THEN 0
    ELSE (a % 2) * (b % 2) + 2 * BitAnd(a \div 2, b \div 2)

\* categories.sum()
RECURSIVE Sum(_)
Sum(cs) == IF cs = <<>> THEN 0 ELSE Head(cs) + Sum(Tail(cs))

\* A policy: the factory that made it and its categories.
Policy(of, categories) == [of |-> of, categories |-> categories]

\* fun none() = TrackingProtectionPolicy(NONE)
none == Policy("none", NONE)

\* fun all() = TrackingProtectionPolicyForSessionTypes(ALL)
all == Policy("all", ALL)

\* fun recommended() = TrackingProtectionPolicyForSessionTypes(RECOMMENDED)
recommended == Policy("recommended", RECOMMENDED)

\* fun select(vararg categories: Int) = ...ForSessionTypes(categories.sum())
select(cs) == Policy("select", Sum(cs))

\* Variant: contains that is true of every category once the policy has any.
containsAny(categories, category) == categories # 0

\* fun contains(category: Int) = (categories and category) != 0
contains(categories, category) == BitAnd(categories, category) # 0

\* A contains call and what it returned; NoQuery: none since the policy was made.
Query(category, result) == [category |-> category, result |-> result]
NoQuery == Query(NONE, FALSE)

\* A policy is made by one of the factories.
PolicyNone ==
    /\ policy' = none
    /\ query' = NoQuery
    /\ UNCHANGED storeVars
    /\ UNCHANGED audioVars

PolicyAll ==
    /\ policy' = all
    /\ query' = NoQuery
    /\ UNCHANGED storeVars
    /\ UNCHANGED audioVars

PolicyRecommended ==
    /\ policy' = recommended
    /\ query' = NoQuery
    /\ UNCHANGED storeVars
    /\ UNCHANGED audioVars

PolicySelect(cs) ==
    /\ policy' = select(cs)
    /\ query' = NoQuery
    /\ UNCHANGED storeVars
    /\ UNCHANGED audioVars

\* policy.contains(category)
PolicyContains(category) ==
    /\ query' = Query(category, contains(policy.categories, category))
    /\ UNCHANGED policy
    /\ UNCHANGED storeVars
    /\ UNCHANGED audioVars

\* ------------------------------------------------- AudioBufferSourceNode
\* AudioBufferSourceNode.cpp: a node of the audio graph that plays an
\* AudioBuffer, and the engine that produces its blocks.  Times the caller
\* passes are doubles in seconds; here they are whole numbers of halves of a
\* second.  Start and Stop hand parameters to the engine through the node's
\* stream; the stream delivers them in order before the next block.
MaxWhen == 2           \* latest time passed to Start or Stop, in halves
MaxOffset == 1         \* largest offset passed to Start, in halves
MaxDuration == 1       \* largest duration passed to Start, in halves
MaxLengthSamples == 2  \* longest buffer, in samples
MaxChannels == 1       \* most channels of a buffer
MaxLoopPoint == 2      \* largest loopStart or loopEnd attribute, in halves
MaxBlocks == 3         \* blocks the graph asks the engine for

Half == 2                     \* halves in a second
Rate == 2                     \* Context()->GetRate(): samples in a second
WEBAUDIO_BLOCK_SIZE == 2      \* ticks in a block
TRACK_TICKS_MAX == 2 ^ 30     \* the stop time of a source never stopped

Min(a, b) == IF a <= b THEN a ELSE b
Max(a, b) == IF a >= b THEN a ELSE b

\* NS_lround of n halves: the nearest integer, halves away from zero.
NS_lround(n) ==
    IF n >= 0 THEN (2 * n + Half) \div (2 * Half)
    ELSE -((2 * (-n) + Half) \div (2 * Half))

\* The stream's conversion of a time in seconds (>= 0) to ticks of the graph.
StreamTimeToTicks(n) == (n * Rate) \div Half

\* C++ remainder of a by b > 0: it has the sign of a.
Rem(a, b) == IF a >= 0 THEN a % b ELSE -((-a) % b)

NullBuffer == [null |-> TRUE, lengthSamples |-> 0, channels |-> 0]
Buffer(lengthSamples, channels) ==
    [null |-> FALSE, lengthSamples |-> lengthSamples, channels |-> channels]
Buffers == {Buffer(l, c) : l \in 1..MaxLengthSamples, c \in 1..MaxChannels}

\* Optional<double> aDuration
NoDuration == [passed |-> FALSE, value |-> 0]
Duration(v) == [passed |-> TRUE, value |-> v]
Durations == {NoDuration} \cup {Duration(v) : v \in 0..MaxDuration}

\* The node after its constructor.
NewNode ==
    [mBuffer |-> NullBuffer, mLoopStart |-> 0, mLoopEnd |-> 0, mLoop |-> FALSE,
     mStartCalled |-> FALSE, mStream |-> TRUE, mProduceOwnOutput |-> TRUE]

\* The engine after its constructor.
NewEngine ==
    [mStart |-> 0, mStop |-> TRACK_TICKS_MAX, mBuffer |-> NullBuffer,
     mOffset |-> 0, mDuration |-> 0, mLoop |-> "NotLooping",
     mLoopStart |-> 0, mLoopEnd |-> 0]

NewStream == [blocks |-> 0, finished |-> FALSE, trapped |-> FALSE]

\* The last call: its name, whether it threw INVALID_STATE_ERR, the engine
\* parameters it sent, the arguments of a Start or Stop that did not throw,
\* and for a block whether it set *aFinished and what it left in aOutput.
Out(op, threw, sent, when, offset, duration, finished, output) ==
    [op |-> op, threw |-> threw, sent |-> sent, when |-> when,
     offset |-> offset, duration |-> duration, finished |-> finished,
     output |-> output]
NoOut(op) == Out(op, FALSE, {}, 0, 0, NoDuration, FALSE, "none")

\* ---- the engine's setters
SetStreamTimeParameter(e, aIndex, aParam) ==
    IF aIndex = "START" THEN [e EXCEPT !.mStart = aParam]
    ELSE IF aIndex = "STOP" THEN [e EXCEPT !.mStop = aParam]
    ELSE e

SetInt32Parameter(e, aIndex, aParam) ==
    IF aIndex = "OFFSET" THEN [e EXCEPT !.mOffset = aParam]
    ELSE IF aIndex = "DURATION" THEN [e EXCEPT !.mDuration = aParam]
    ELSE IF aIndex = "LOOP"
      THEN [e EXCEPT !.mLoop = IF aParam # 0 THEN "WillLoop" ELSE "NotLooping"]
    ELSE IF aIndex = "LOOPSTART" THEN [e EXCEPT !.mLoopStart = aParam]
    ELSE IF aIndex = "LOOPEND" THEN [e EXCEPT !.mLoopEnd = aParam]
    ELSE e

SetBuffer(e, aBuffer) == [e EXCEPT !.mBuffer = aBuffer]

\* ---- ProduceAudioBlock
\* Variant: the block is wholly past the stop time.
StopPassed(e, currentPosition) ==
    e.mStop # TRACK_TICKS_MAX /\ currentPosition >= e.mStop

\* The stop test of loop mode.
StopReached(e, currentPosition) ==
    e.mStop # TRACK_TICKS_MAX /\ currentPosition + WEBAUDIO_BLOCK_SIZE >= e.mStop

\* Variant: finished as soon as the end time, stop included, is reached.
PastEndTime(e, currentPosition) ==
    currentPosition + WEBAUDIO_BLOCK_SIZE >= Min(e.mStart + e.mDuration, e.mStop)

\* The finished test outside loop mode.
PastDuration(e, currentPosition) ==
    currentPosition + WEBAUDIO_BLOCK_SIZE >= e.mStart + e.mDuration

\* Variant: every manually built block of a source about to loop moves on.
EveryCopyLoops(currentPosition, startLoop) == TRUE

\* The test that moves a manually built block to the first repeat.
ReachesLoopPoint(currentPosition, startLoop) ==
    currentPosition + WEBAUDIO_BLOCK_SIZE >= startLoop

Block(mLoop, finished, output) ==
    [mLoop |-> mLoop, finished |-> finished, output |-> output]

\* The block reaches the remainder by a loop length of zero.
DividesByZero(e, currentPosition) ==
    /\ ~e.mBuffer.null
    /\ currentPosition + WEBAUDIO_BLOCK_SIZE > e.mStart
    /\ ~StopReached(e, currentPosition)
    /\ e.mBuffer.channels # 0
    /\ e.mLoop = "IsLooping"
    /\ currentPosition + WEBAUDIO_BLOCK_SIZE <= e.mStop
    /\ e.mLoopEnd - e.mLoopStart = 0

\* One block at currentPosition: the loop state after it, whether it set
\* *aFinished, and what it left in aOutput.  d is the remainder a division by
\* zero that does not trap leaves.
ProduceAudioBlockCall(e, currentPosition, d) ==
    LET endTime == Min(e.mStart + e.mDuration, e.mStop)
        finished == PastDuration(e, currentPosition)
        startLoop == Min(e.mStart + e.mLoopEnd - e.mOffset, e.mStop)
        loopLength == e.mLoopEnd - e.mLoopStart
        intoLoop == currentPosition - e.mStart + e.mOffset - e.mLoopEnd
        distanceFromLoopStart ==
            IF loopLength = 0 THEN d ELSE Rem(intoLoop, loopLength)
    IN  IF e.mBuffer.null THEN Block(e.mLoop, FALSE, "untouched")
        ELSE IF currentPosition + WEBAUDIO_BLOCK_SIZE <= e.mStart
          THEN Block(e.mLoop, FALSE, "null")
        ELSE IF e.mLoop # "NotLooping" /\ StopReached(e, currentPosition)
          THEN Block(e.mLoop, TRUE, "null")
        ELSE IF e.mLoop = "NotLooping"
                /\ (currentPosition >= endTime \/ e.mStart >= endTime)
          THEN Block(e.mLoop, finished, "null")
        ELSE IF e.mBuffer.channels = 0
          THEN Block(e.mLoop, e.mLoop = "NotLooping" /\ finished, "null")
        ELSE IF e.mLoop = "NotLooping"
          THEN Block(e.mLoop, finished,
                     IF /\ currentPosition >= e.mStart
                        /\ currentPosition + WEBAUDIO_BLOCK_SIZE <= endTime
                     THEN "borrow" ELSE "copy")
        ELSE IF e.mLoop = "WillLoop"
          THEN IF /\ currentPosition >= e.mStart
                  /\ currentPosition + WEBAUDIO_BLOCK_SIZE <= startLoop
               THEN Block(IF currentPosition + WEBAUDIO_BLOCK_SIZE = startLoop
                          THEN "IsLooping" ELSE "WillLoop", FALSE, "borrow")
               ELSE Block(IF ReachesLoopPoint(currentPosition, startLoop)
                          THEN "IsLooping" ELSE "WillLoop", FALSE, "copy")
        ELSE Block(e.mLoop, FALSE,
                   IF /\ currentPosition + WEBAUDIO_BLOCK_SIZE <= e.mStop
                      /\ loopLength >= WEBAUDIO_BLOCK_SIZE
                      /\ distanceFromLoopStart + WEBAUDIO_BLOCK_SIZE <= loopLength
                   THEN "borrow" ELSE "copy")

\* aStream->GetCurrentPosition()
GetCurrentPosition == stream.blocks * WEBAUDIO_BLOCK_SIZE

\* The graph asks the engine for the next block.
ProduceAudioBlock(d) ==
    /\ node.mStream
    /\ ~stream.trapped
    /\ stream.blocks < MaxBlocks
    /\ LET b == ProduceAudioBlockCall(engine, GetCurrentPosition, d)
       IN  /\ engine' = [engine EXCEPT !.mLoop = b.mLoop]
           /\ stream' = [stream EXCEPT !.blocks = @ + 1,
                                       !.finished = @ \/ b.finished]
           /\ out' = Out("ProduceAudioBlock", FALSE, {}, 0, 0, NoDuration,
                         b.finished, b.output)
    /\ UNCHANGED node
    /\ UNCHANGED storeVars
    /\ UNCHANGED <<policy, query>>

\* The division by zero traps and the process ends.
ProduceAudioBlockTraps ==
    /\ node.mStream
    /\ ~stream.trapped
    /\ stream.blocks < MaxBlocks
    /\ DividesByZero(engine, GetCurrentPosition)
    /\ stream' = [stream EXCEPT !.trapped = TRUE]
    /\ out' = NoOut("ProduceAudioBlock")
    /\ UNCHANGED <<node, engine>>
    /\ UNCHANGED storeVars
    /\ UNCHANGED <<policy, query>>

\* ---- the node
\* Variant: Start may be called again.
StartNeverThrows(n) == FALSE

StartThrows(n) == n.mStartCalled

\* Variant: Stop needs no Start.
StopNeverThrows(n) == FALSE

StopThrows(n) == ~n.mStartCalled

Length(b) == (Half * b.lengthSamples) \div Rate
Offset(aOffset) == Max(0, aOffset)
EndOffset(b, aOffset, aDuration) ==
    IF aDuration.passed THEN Min(aOffset + aDuration.value, Length(b))
    ELSE Length(b)

\* Start has something to play and a stream to play it on.
StartSends(n, aOffset, aDuration) ==
    /\ ~n.mBuffer.null
    /\ n.mStream
    /\ Offset(aOffset) < EndOffset(n.mBuffer, aOffset, aDuration)

LoopPointsGiven(n) ==
    /\ n.mLoopStart # 0 \/ n.mLoopEnd # 0
    /\ n.mLoopStart >= 0
    /\ n.mLoopEnd > 0
    /\ n.mLoopStart < n.mLoopEnd
ActualLoopStart(n) ==
    IF LoopPointsGiven(n)
    THEN (IF n.mLoopStart > Length(n.mBuffer) THEN 0 ELSE n.mLoopStart)
    ELSE 0
ActualLoopEnd(n) ==
    IF LoopPointsGiven(n) THEN Min(n.mLoopEnd, Length(n.mBuffer))
    ELSE Length(n.mBuffer)

StartSetsSTART(aWhen) == aWhen > 0

OffsetTicks(aOffset) == NS_lround(Offset(aOffset) * Rate)
DurationTicks(b, aOffset, aDuration) ==
    NS_lround(EndOffset(b, aOffset, aDuration) * Rate) - OffsetTicks(aOffset)

\* The parameters a Start that plays sends, in order.
StartEngine(e, n, aWhen, aOffset, aDuration) ==
    LET e1 == IF n.mLoop
              THEN SetInt32Parameter(
                     SetInt32Parameter(SetInt32Parameter(e, "LOOP", 1),
                        "LOOPSTART", NS_lround(ActualLoopStart(n) * Rate)),
                     "LOOPEND", NS_lround(ActualLoopEnd(n) * Rate))
              ELSE e
        e2 == SetBuffer(e1, n.mBuffer)
        e3 == IF StartSetsSTART(aWhen)
              THEN SetStreamTimeParameter(e2, "START", StreamTimeToTicks(aWhen))
              ELSE e2
        e4 == IF OffsetTicks(aOffset) > 0
              THEN SetInt32Parameter(e3, "OFFSET", OffsetTicks(aOffset))
              ELSE e3
    IN  SetInt32Parameter(e4, "DURATION",
                          DurationTicks(n.mBuffer, aOffset, aDuration))

StartSent(n, aWhen, aOffset) ==
    (IF n.mLoop THEN {"LOOP", "LOOPSTART", "LOOPEND"} ELSE {})
    \cup {"BUFFER", "DURATION"}
    \cup (IF StartSetsSTART(aWhen) THEN {"START"} ELSE {})
    \cup (IF OffsetTicks(aOffset) > 0 THEN {"OFFSET"} ELSE {})

Start(aWhen, aOffset, aDuration) ==
    /\ ~stream.trapped
    /\ IF StartThrows(node)
       THEN /\ out' = Out("Start", TRUE, {}, 0, 0, NoDuration, FALSE, "none")
            /\ UNCHANGED <<node, engine>>
       ELSE /\ node' = [node EXCEPT !.mStartCalled = TRUE]
            /\ IF StartSends(node, aOffset, aDuration)
               THEN /\ engine' = StartEngine(engine, node, aWhen, aOffset,
                                             aDuration)
                    /\ out' = Out("Start", FALSE,
                                  StartSent(node, aWhen, aOffset),
                                  aWhen, aOffset, aDuration, FALSE, "none")
               ELSE /\ UNCHANGED engine
                    /\ out' = Out("Start", FALSE, {}, aWhen, aOffset,
                                  aDuration, FALSE, "none")
    /\ UNCHANGED stream
    /\ UNCHANGED storeVars
    /\ UNCHANGED <<policy, query>>

Stop(aWhen) ==
    /\ ~stream.trapped
    /\ IF StopThrows(node)
       THEN /\ out' = Out("Stop", TRUE, {}, 0, 0, NoDuration, FALSE, "none")
            /\ UNCHANGED engine
       ELSE IF ~node.mStream
       THEN /\ out' = Out("Stop", FALSE, {}, aWhen, 0, NoDuration, FALSE, "none")
            /\ UNCHANGED engine
       ELSE /\ engine' = SetStreamTimeParameter(engine, "STOP",
                            StreamTimeToTicks(Max(0, aWhen)))
            /\ out' = Out("Stop", FALSE, {"STOP"}, aWhen, 0, NoDuration,
                          FALSE, "none")
    /\ UNCHANGED <<node, stream>>
    /\ UNCHANGED storeVars
    /\ UNCHANGED <<policy, query>>

NotifyMainThreadStateChanged ==
    /\ ~stream.trapped
    /\ node.mStream
    /\ node' = [node EXCEPT !.mProduceOwnOutput = @ /\ ~stream.finished]
    /\ out' = NoOut("NotifyMainThreadStateChanged")
    /\ UNCHANGED <<engine, stream>>
    /\ UNCHANGED storeVars
    /\ UNCHANGED <<policy, query>>

\* The node's attributes, set by script before the graph runs the node.
SetNodeBuffer(aBuffer) ==
    /\ ~node.mStartCalled
    /\ stream.blocks = 0
    /\ node' = [node EXCEPT !.mBuffer = aBuffer]
    /\ out' = NoOut("attribute")
    /\ UNCHANGED <<engine, stream>>
    /\ UNCHANGED storeVars
    /\ UNCHANGED <<policy, query>>

SetLoop(aLoop) ==
    /\ ~node.mStartCalled
    /\ stream.blocks = 0
    /\ node' = [node EXCEPT !.mLoop = aLoop]
    /\ out' = NoOut("attribute")
    /\ UNCHANGED <<engine, stream>>
    /\ UNCHANGED storeVars
    /\ UNCHANGED <<policy, query>>

SetLoopStart(aStart) ==
    /\ ~node.mStartCalled
    /\ stream.blocks = 0
    /\ node' = [node EXCEPT !.mLoopStart = aStart]
    /\ out' = NoOut("attribute")
    /\ UNCHANGED <<engine, stream>>
    /\ UNCHANGED storeVars
    /\ UNCHANGED <<policy, query>>

SetLoopEnd(aEnd) ==
    /\ ~node.mStartCalled
    /\ stream.blocks = 0
    /\ node' = [node EXCEPT !.mLoopEnd = aEnd]
    /\ out' = NoOut("attribute")
    /\ UNCHANGED <<engine, stream>>
    /\ UNCHANGED storeVars
    /\ UNCHANGED <<policy, query>>

\* The node gives up its stream.
DestroyMediaStream ==
    /\ ~stream.trapped
    /\ node.mStream
    /\ node' = [node EXCEPT !.mStream = FALSE]
    /\ out' = NoOut("DestroyMediaStream")
    /\ UNCHANGED <<engine, stream>>
    /\ UNCHANGED storeVars
    /\ UNCHANGED <<policy, query>>

\* ------------------------------------------------------------ specification
Init ==
    /\ alive = TRUE
    /\ m_pDB = 0
    /\ opens = 0
    /\ handles = {}
    /\ openable \in BOOLEAN
    /\ view = EmptyDB
    /\ disk = EmptyDB
    /\ staticDBT = NullDBT
    /\ last = NoCall("none")
    /\ probe = NoProbe
    /\ okPut = Absent
    /\ everPut = FALSE
    /\ policy = none
    /\ query = NoQuery
    /\ node = NewNode
    /\ engine = NewEngine
    /\ stream = NewStream
    /\ out = NoOut("none")

\* The same store, with the history kept for one address.
InitHist ==
    /\ alive = TRUE
    /\ m_pDB = 0
    /\ opens = 0
    /\ handles = {}
    /\ openable \in BOOLEAN
    /\ view = EmptyDB
    /\ disk = EmptyDB
    /\ staticDBT = NullDBT
    /\ last = NoCall("none")
    /\ probe \in Watched
    /\ okPut = Absent
    /\ everPut = FALSE
    /\ policy = none
    /\ query = NoQuery
    /\ node = NewNode
    /\ engine = NewEngine
    /\ stream = NewStream
    /\ out = NoOut("none")

Next ==
    \/ \E ob \in Objects : AddObject(ob)
    \/ \E ob \in Objects : AddObjectAborts(ob)
    \/ \E url \in Ptrs, err \in BOOLEAN : Contains(url, err)
    \/ \E ob \in {x \in Objects : x.info = <<>>}, dangling \in BOOLEAN, err \in BOOLEAN :
          \E gk \in AddressReads(ob, dangling) : ContainsObject(ob, dangling, gk, err)
    \/ \E url \in Ptrs, err \in BOOLEAN : GetObject(url, err)
    \/ \E i \in 0..1 : GetObjectByIndex(i)
    \/ \E syncOk \in BOOLEAN, flushed \in SUBSET Urls : Destroy(syncOk, flushed)
    \/ Construct
    \/ Crash
    \/ SetOpenable

Spec == Init /\ [][Next]_vars

SpecHist == InitHist /\ [][Next]_vars

\* The behaviours of TrackingProtectionPolicy.
NextPolicy ==
    \/ PolicyNone
    \/ PolicyAll
    \/ PolicyRecommended
    \/ \E cs \in SeqsUpTo(Categories, MaxSelect) : PolicySelect(cs)
    \/ \E category \in Categories : PolicyContains(category)

SpecPolicy == Init /\ [][NextPolicy]_vars

\* The behaviours of AudioBufferSourceNode and its engine.
NextAudio ==
    \/ \E aBuffer \in Buffers \cup {NullBuffer} : SetNodeBuffer(aBuffer)
    \/ \E aLoop \in BOOLEAN : SetLoop(aLoop)
    \/ \E aStart \in 0..MaxLoopPoint : SetLoopStart(aStart)
    \/ \E aEnd \in 0..MaxLoopPoint : SetLoopEnd(aEnd)
    \/ \E aWhen \in -1..MaxWhen, aOffset \in -1..MaxOffset, aDuration \in Durations :
          Start(aWhen, aOffset, aDuration)
    \/ \E aWhen \in -1..MaxWhen : Stop(aWhen)
    \/ \E d \in IF DividesByZero(engine, GetCurrentPosition)
                THEN 0..WEBAUDIO_BLOCK_SIZE ELSE {0} : ProduceAudioBlock(d)
    \/ ProduceAudioBlockTraps
    \/ NotifyMainThreadStateChanged
    \/ DestroyMediaStream

InitAudio == Init /\ openable

SpecAudio == InitAudio /\ [][NextAudio]_vars

\* ------------------------------------------------------------- properties
\* The operations that start with InitDB.
PublicOps == {"AddObject", "Contains", "ContainsObject", "GetObject", "GetObjectByIndex"}

\* The objects a caller can hand over in this state.
Args == {ob \in Objects : Passable(ob)}

\* C1 (round trip): right after an AddObject of an object with the watched
\* non-empty address returned true, GetObject of that address returns an
\* object whose info is the info of the object that was added.
C1_RoundTrip ==
    (alive /\ last.op = "AddObject" /\ last.ok /\ last.url = Str(probe)) =>
        LET g == GetObjectCall(Str(probe), FALSE)
        IN g.ok /\ g.blob = okPut.data

\* C2 (last write wins): whenever the store has or can get a handle, GetObject
\* of the watched address returns the info of the most recent AddObject of
\* that address that returned true.
C2_LastWriteWins ==
    (alive /\ InitDB(m_pDB) # 0 /\ okPut.present) =>
        LET g == GetObjectCall(Str(probe), FALSE)
        IN g.ok /\ g.blob = okPut.data

\* C3 (crash durability): after a crash, an address whose AddObject had
\* returned true is found when the backing file is opened again.
C3_CrashDurability ==
    (last.op = "Crash" /\ openable /\ okPut.present) =>
        GetObjectCall(Str(probe), FALSE).ok

\* C4 (flush ordering): an AddObject whose put succeeds issues exactly one
\* sync, right after the put and as its last database call; an AddObject
\* whose put fails, or that does not reach the put, issues no sync.
C4_FlushOrdering ==
    alive =>
        \A ob \in Args, putOk \in BOOLEAN, syncOk \in BOOLEAN :
            LET c == AddObjectCall(ob, <<>>, <<>>, putOk, syncOk)
                calls == c.ret.calls
                n == Len(calls)
                puts == {i \in 1..n : calls[i] = "put"}
                syncs == {i \in 1..n : calls[i] = "sync"}
                reached == InitDB(m_pDB) # 0 /\ AddObjectAccepts(ob)
            IN /\ puts = IF reached THEN {n - Cardinality(syncs)} ELSE {}
               /\ syncs = IF reached /\ putOk THEN {n} ELSE {}
               /\ c.put = (reached /\ putOk)
               /\ c.synced = (syncs # {})

\* A state after an AddObject whose put succeeded and whose sync was issued.
C4_Witness ==
    /\ last.op = "AddObject"
    /\ last.ok
    /\ view # EmptyDB
    /\ disk = view

\* C5 (Contains iff added): whenever the store has or can get a handle,
\* Contains of the watched address is true exactly if some earlier AddObject
\* of that address returned true.
C5_ContainsIffPut ==
    (alive /\ InitDB(m_pDB) # 0) =>
        (ContainsCall(Str(probe), FALSE).ok <=> okPut.present)

\* C6 (never added, never found): as long as no AddObject was called for the
\* watched address, GetObject of it returns null.
C6_GetNeverPut ==
    (alive /\ ~everPut) =>
        \A err \in BOOLEAN : ~GetObjectCall(Str(probe), err).ok

\* C7 (empty address): an AddObject of an object whose address is the empty
\* string returns false.
C7_EmptyKeyRejected ==
    (last.op = "AddObject" /\ last.url = Str(<<>>)) => ~last.ok

\* A store whose backing path cannot be opened.
Unopenable == alive /\ m_pDB = 0 /\ ~openable

\* C8 (unopenable store): on a store whose path cannot be opened every
\* operation returns false or null, makes no database call but the failed
\* dbopen, none through a null handle, and AddObject cannot abort.
C8_UnopenableStore ==
    Unopenable =>
        /\ \A ob \in Args, putOk \in BOOLEAN, syncOk \in BOOLEAN :
              LET c == AddObjectCall(ob, <<>>, <<>>, putOk, syncOk)
              IN ~c.ret.ok /\ ~c.ret.nullCall /\ c.ret.calls = <<"dbopen">>
        /\ \A url \in Ptrs, err \in BOOLEAN :
              /\ ContainsCall(url, err) = Result(FALSE, <<>>, <<"dbopen">>, FALSE)
              /\ GetObjectCall(url, err) = Result(FALSE, <<>>, <<"dbopen">>, FALSE)
        /\ \A ob \in Args, dangling \in BOOLEAN, err \in BOOLEAN :
              \A gk \in AddressReads(ob, dangling) :
                  ContainsObjectCall(ob, gk, err) = Result(FALSE, <<>>, <<"dbopen">>, FALSE)
        /\ \A i \in 0..1 :
              GetObjectByIndexCall(i) = Result(FALSE, <<>>, <<"dbopen">>, FALSE)
        /\ ~ENABLED (\E ob \in Objects : AddObjectAborts(ob))

\* Contains has run on a store whose file holds records and cannot be opened.
C8_Witness ==
    /\ Unopenable
    /\ last.op = "Contains"
    /\ view # EmptyDB

\* C9 (lazy retry): an operation on a store without a handle calls dbopen
\* first; the handle is set exactly if the path is openable, and then the
\* operation is the operation on an open store: Contains and GetObject find
\* what the file holds, AddObject reaches the put.
C9_LazyRetry ==
    [][(alive /\ m_pDB = 0 /\ last'.op \in PublicOps) =>
          /\ (m_pDB' # 0) = openable
          /\ (m_pDB' # 0) => (opens' = 1 /\ handles' = {m_pDB'})
          /\ \A url \in Ptrs :
                LET found == openable /\ ~url.null /\ url.s # <<>> /\ view[url.s].present
                    c == ContainsCall(url, FALSE)
                    g == GetObjectCall(url, FALSE)
                IN /\ Head(c.calls) = "dbopen" /\ c.ok = found
                   /\ Head(g.calls) = "dbopen" /\ g.ok = found
                   /\ found => g.blob = InfoFromData(view[url.s].data)
          /\ \A ob \in Args :
                LET c == AddObjectCall(ob, <<>>, <<>>, TRUE, TRUE)
                IN /\ Head(c.ret.calls) = "dbopen"
                   /\ c.ret.ok = (openable /\ AddObjectAccepts(ob))
          /\ Head(GetObjectByIndexCall(0).calls) = "dbopen"
          /\ \A ob \in Args : Head(ContainsObjectCall(ob, <<>>, FALSE).calls) = "dbopen"
      ]_vars

\* GetObject has run in a process that added nothing, on a file that holds
\* records, and the store has its handle.
C9_Witness ==
    /\ last.op = "GetObject"
    /\ m_pDB # 0
    /\ staticDBT = NullDBT
    /\ view # EmptyDB

\* C10 (one open, one handle): a store object opens its file at most once and
\* holds at most one handle, and an operation on a store that has a handle
\* calls no dbopen and leaves the handle as it is.
C10_OpenOnce ==
    /\ [](/\ opens <= 1
          /\ Cardinality(handles) <= 1
          /\ m_pDB # 0 =>
                /\ handles = {m_pDB}
                /\ InitDB(m_pDB) = m_pDB
                /\ OpenCalls(m_pDB) = <<>>
                /\ \A url \in Ptrs, err \in BOOLEAN :
                      /\ \A i \in DOMAIN ContainsCall(url, err).calls :
                            ContainsCall(url, err).calls[i] # "dbopen"
                      /\ \A i \in DOMAIN GetObjectCall(url, err).calls :
                            GetObjectCall(url, err).calls[i] # "dbopen")
    /\ [][(m_pDB # 0 /\ last'.op \in PublicOps) =>
             (m_pDB' = m_pDB /\ opens' = opens /\ handles' = handles)]_vars

\* An AddObject on a store that had its handle: the static DBT was set by an
\* earlier AddObject and the object given is one added before.
C10_Witness ==
    /\ last.op = "AddObject"
    /\ last.ok
    /\ staticDBT.freed
    /\ opens = 1
    /\ handles = {m_pDB}

\* C11 (the handle stays): once the store has a handle, every public
\* operation that returns, an AddObject whose put or sync fails included,
\* leaves m_pDB the same handle and the set of open handles as it was.
C11_HandleStays ==
    [][(alive /\ m_pDB # 0 /\ last'.op \in PublicOps) =>
          /\ alive'
          /\ m_pDB' = m_pDB
          /\ m_pDB' \in handles'
          /\ handles' = handles
          /\ InitDB(m_pDB) = m_pDB
      ]_vars

\* An AddObject whose sync failed after its put has returned false, and the
\* store still has its handle.
C11_Witness ==
    /\ last.op = "AddObject"
    /\ ~last.ok
    /\ view # disk
    /\ m_pDB # 0
    /\ m_pDB \in handles

\* C12 (failures are reported as false): AddObject returns true exactly when
\* the store has or gets a handle, the object and its address are not null,
\* the put succeeds and the sync after it succeeds; in every other case it
\* returns false, and no case makes a call through a null handle.
C12_PutReportsFailure ==
    alive =>
        \A ob \in Args, putOk \in BOOLEAN, syncOk \in BOOLEAN :
            LET c == AddObjectCall(ob, <<>>, <<>>, putOk, syncOk)
            IN /\ c.ret.ok = /\ InitDB(m_pDB) # 0
                             /\ ~ob.null
                             /\ ~ob.addr.null
                             /\ putOk
                             /\ syncOk
               /\ ~c.ret.nullCall
               /\ c.ret.ok => (c.put /\ c.synced)

\* An AddObject whose put failed on an open store has returned false: the
\* static DBT is set and nothing was written.
C12_Witness ==
    /\ last.op = "AddObject"
    /\ ~last.ok
    /\ ~last.url.null
    /\ m_pDB # 0
    /\ staticDBT.set
    /\ view = EmptyDB

\* The result of a lookup that misses: false or null, no info, one get.
Miss == Result(FALSE, <<>>, <<"get">>, FALSE)

\* C13 (an error reads as a miss): on a store with a handle, Contains and
\* GetObject of a non-empty address give the result of a miss both when the
\* database has no record for it and when the get reports an error, whether
\* or not a record exists.
C13_ErrorIsMiss ==
    (alive /\ m_pDB # 0) =>
        \A k \in Urls \ {<<>>} :
            /\ ContainsCall(Str(k), TRUE) = Miss
            /\ GetObjectCall(Str(k), TRUE) = Miss
            /\ ~view[k].present =>
                  /\ ContainsCall(Str(k), FALSE) = Miss
                  /\ GetObjectCall(Str(k), FALSE) = Miss

\* Contains has run on a store that holds a record for one address and none
\* for another: a get of the first that fails and a get of the second give
\* the same result.
C13_Witness ==
    /\ last.op = "Contains"
    /\ m_pDB # 0
    /\ \E k \in Urls \ {<<>>}, j \in Urls \ {<<>>} :
          /\ view[k].present
          /\ ~view[j].present
          /\ ContainsCall(Str(k), TRUE) = ContainsCall(Str(j), FALSE)

\* C14 (null and empty addresses): in every state Contains and GetObject of a
\* null or empty string return false and null and make no database call but
\* the dbopen of a store without a handle, whatever the database holds under
\* the empty key.
C14_EmptyKeyLookup ==
    alive =>
        \A url \in {NullStr, Str(<<>>)}, err \in BOOLEAN :
            /\ ContainsCall(url, err) = Result(FALSE, <<>>, OpenCalls(m_pDB), FALSE)
            /\ GetObjectCall(url, err) = Result(FALSE, <<>>, OpenCalls(m_pDB), FALSE)

\* GetObject has run on a store with a handle whose database holds a record
\* under the empty key.
C14_Witness ==
    /\ last.op = "GetObject"
    /\ m_pDB # 0
    /\ view[<<>>].present

\* C15 (Contains is a query): Contains(const char*) makes no database call
\* but dbopen and get, and a Contains step leaves every record, as seen
\* through the handle and as on stable storage, the static DBT and the
\* path as they were: it can change the handle only, by the lazy open.
C15_ContainsIsQuery ==
    /\ [](alive =>
            \A url \in Ptrs, err \in BOOLEAN :
                \A i \in DOMAIN ContainsCall(url, err).calls :
                    ContainsCall(url, err).calls[i] \in {"dbopen", "get"})
    /\ [][last'.op = "Contains" =>
             /\ \A k \in Urls : view'[k] = view[k] /\ disk'[k] = disk[k]
             /\ staticDBT' = staticDBT
             /\ openable' = openable
             /\ m_pDB # 0 => (m_pDB' = m_pDB /\ handles' = handles)
         ]_vars

\* Contains has run on a store whose handle holds a record that is not on
\* stable storage: it was not flushed.
C15_Witness ==
    /\ last.op = "Contains"
    /\ m_pDB # 0
    /\ \E k \in Urls \ {<<>>} : view[k].present /\ ~disk[k].present

\* C16 (canonical instance on a hit): after a Contains(nsCacheObject*) that
\* hits, the object the caller's pointer refers to carries the info stored
\* in the database for its address.
C16_CanonicalOnHit ==
    (alive /\ last.op = "ContainsObject") =>
        \A ob \in {x \in Args : ~x.null /\ ~x.added /\ ~x.addr.null} :
            LET c == ContainsObjectCall(ob, ob.addr.s, FALSE)
            IN c.ok => CallerObjectAfter(ob, c.ok).info = InfoFromData(view[ob.addr.s].data)

\* C17 (lookup by index is a stub): GetObject(const PRUint32) returns null
\* for every index in every state, and makes no database call but the dbopen
\* of a store without a handle.
C17_IndexLookupFails ==
    alive =>
        \A i \in 0..1 :
            GetObjectByIndexCall(i) = Result(FALSE, <<>>, OpenCalls(m_pDB), FALSE)

\* GetObject(const PRUint32) has run on a store with a handle that holds a
\* record for every non-empty address.
C17_Witness ==
    /\ last.op = "GetObjectByIndex"
    /\ m_pDB # 0
    /\ \A k \in Urls \ {<<>>} : view[k].present

\* C18 (close): the destructor of a store with a handle calls sync, then
\* close, and clears m_pDB; the destructor of a store without a handle makes
\* no database call; after a destructor has run the store has no handle, so
\* running it again makes no database call.
C18_Close ==
    /\ [](/\ DestroyCall = IF m_pDB # 0 THEN <<"sync", "close">> ELSE <<>>
          /\ last.op = "Destroy" => (m_pDB = 0 /\ DestroyCall = <<>>))
    /\ [][last'.op = "Destroy" =>
             /\ m_pDB' = 0
             /\ handles' = handles \ {m_pDB}
             /\ m_pDB # 0 => view' = disk'
             /\ m_pDB = 0 => (view' = view /\ disk' = disk)
         ]_vars

\* The destructor has run on a store that had accepted an AddObject, and the
\* records written are on stable storage.
C18_Witness ==
    /\ last.op = "Destroy"
    /\ ~alive
    /\ staticDBT.set
    /\ handles = {}
    /\ disk = view
    /\ disk # EmptyDB

\* C19 (the module tag): an AddObject that returns true leaves the object's
\* tag DISK, and an AddObject that returns false leaves the tag as it was
\* before the call.
C19_TagOnSuccessOnly ==
    (alive /\ last.op = "AddObject") =>
        \A ob \in Args, putOk \in BOOLEAN, syncOk \in BOOLEAN :
            LET c == AddObjectCall(ob, <<>>, <<>>, putOk, syncOk)
            IN /\ c.ret.ok => c.tag = DISK
               /\ ~c.ret.ok => c.tag = TagBefore(ob)

\* The categories the recommended policy is documented to hold.
RecommendedCategories ==
    {AD, ANALYTICS, SOCIAL, TEST, SAFE_BROWSING_MALWARE, SAFE_BROWSING_UNWANTED,
     SAFE_BROWSING_HARMFUL, SAFE_BROWSING_PHISHING}

\* C20 (policy composition): contains on the policy made by recommended() is
\* true of AD, ANALYTICS, SOCIAL, TEST and the four SAFE_BROWSING categories
\* and false of CONTENT, CRYPTOMINING and FINGERPRINTING; contains on the
\* policy made by all() is true of every category.
C20_PolicyComposition ==
    /\ Categories \ RecommendedCategories = {CONTENT, CRYPTOMINING, FINGERPRINTING}
    /\ \A c \in Categories :
          /\ contains(recommended.categories, c) = (c \in RecommendedCategories)
          /\ contains(all.categories, c)
    /\ (policy.of = "recommended" /\ query # NoQuery) =>
          query.result = (query.category \in RecommendedCategories)
    /\ (policy.of = "all" /\ query # NoQuery) => query.result

\* contains(CONTENT) was called on the recommended policy and returned false.
C20_Witness ==
    /\ policy = recommended
    /\ query = Query(CONTENT, FALSE)

\* C21 (AddObject frees nothing it was handed): the address and info buffers
\* of the object the static DBT of AddObject points to, an object given to
\* an earlier AddObject call, are live.
C21_BuffersLive ==
    staticDBT.set => ~staticDBT.freed

\* C22 (a failed AddObject changes nothing): an AddObject that returns false
\* leaves every record seen through the handle as it was, so Contains and
\* GetObject of every address answer as before the call.
C22_FailedPutNoChange ==
    [][(last'.op = "AddObject" /\ ~last'.ok) =>
          \A k \in Urls : view'[k] = view[k]
      ]_vars

\* C23 (the Contains overloads agree): for every object that is not null,
\* Contains(nsCacheObject*) of it, Contains(const char*) of its address and
\* the non-nullness of GetObject(const char*) of its address are the same
\* boolean, whatever a read of the object's address gives.
C23_ContainsAgree ==
    alive =>
        \A ob \in {x \in Args : ~x.null}, dangling \in BOOLEAN :
            (IF dangling THEN MayBeFreed(ob) ELSE MayBeLive(ob)) =>
                \A gk1 \in AddressReads(ob, dangling), gk2 \in AddressReads(ob, dangling) :
                    /\ ContainsObjectCall(ob, gk1, FALSE).ok
                          = ContainsCall(AddressArg(ob, gk2), FALSE).ok
                    /\ ContainsCall(AddressArg(ob, gk2), FALSE).ok
                          = GetObjectCall(AddressArg(ob, gk2), FALSE).ok

\* C24 (AddObject touches one record): an AddObject of an object with
\* address k leaves the record of every other address as it was, whether it
\* returns true or false.
C24_PutTouchesOneKey ==
    [][(last'.op = "AddObject" /\ ~last'.url.null) =>
          \A k2 \in Urls \ {last'.url.s} : view'[k2] = view[k2]
      ]_vars

\* ------------------------------------------- AudioBufferSourceNode claims
\* A step in which the engine produced the block at GetCurrentPosition.
BlockStep == out'.op = "ProduceAudioBlock" /\ stream'.blocks = stream.blocks + 1

\* The position of the block the last ProduceAudioBlock produced.
LastPosition == (stream.blocks - 1) * WEBAUDIO_BLOCK_SIZE

\* C25: after a Start that did not throw, on a node that has a buffer and a
\* live stream, the engine holds a buffer and its START, OFFSET and DURATION
\* are those of the call's when, offset and duration.
C25_StartSetsAll ==
    (out.op = "Start" /\ ~out.threw /\ ~node.mBuffer.null /\ node.mStream) =>
        /\ ~engine.mBuffer.null
        /\ engine.mStart = StreamTimeToTicks(Max(0, out.when))
        /\ engine.mOffset = NS_lround(Max(0, out.offset) * Rate)
        /\ engine.mDuration =
              NS_lround(EndOffset(node.mBuffer, out.offset, out.duration) * Rate)
              - NS_lround(Max(0, out.offset) * Rate)

\* C26: outside loop mode a block sets finished only if its end is at or past
\* mStart + mDuration; a block wholly past the stop time whose end is before
\* mStart + mDuration is silence and does not set finished.
C26_FinishedByDuration ==
    [][(BlockStep /\ engine.mLoop = "NotLooping") =>
         /\ out'.finished =>
              GetCurrentPosition + WEBAUDIO_BLOCK_SIZE
                 >= engine.mStart + engine.mDuration
         /\ (/\ ~engine.mBuffer.null
             /\ GetCurrentPosition >= engine.mStop
             /\ GetCurrentPosition + WEBAUDIO_BLOCK_SIZE
                  < engine.mStart + engine.mDuration)
              => (~out'.finished /\ out'.output = "null")]_vars

\* A block outside loop mode, past the stop time and before the end of the
\* duration, was silence and did not set finished.
C26_Witness ==
    /\ out.op = "ProduceAudioBlock"
    /\ engine.mLoop = "NotLooping"
    /\ ~engine.mBuffer.null
    /\ LastPosition >= engine.mStop
    /\ LastPosition + WEBAUDIO_BLOCK_SIZE > engine.mStart
    /\ LastPosition + WEBAUDIO_BLOCK_SIZE < engine.mStart + engine.mDuration
    /\ out.output = "null"
    /\ ~out.finished

\* C27 as stated: in loop mode a block never sets finished while mStop is
\* TRACK_TICKS_MAX, and every block whose end is at or past a stop time that
\* was set sets finished and is silence.
C27_LoopUntilStop ==
    [][(BlockStep /\ engine.mLoop # "NotLooping") =>
         /\ engine.mStop = TRACK_TICKS_MAX => ~out'.finished
         /\ (/\ engine.mStop # TRACK_TICKS_MAX
             /\ GetCurrentPosition + WEBAUDIO_BLOCK_SIZE >= engine.mStop)
              => (out'.finished /\ out'.output = "null")]_vars

\* C27 amended: in loop mode a block never sets finished while mStop is
\* TRACK_TICKS_MAX, and every block whose end is past the start time and at
\* or past a stop time that was set sets finished and is silence; a block
\* that ends at or before the start time is silence and does not set finished.
C27_LoopUntilStopAfterStart ==
    [][(BlockStep /\ engine.mLoop # "NotLooping") =>
         /\ engine.mStop = TRACK_TICKS_MAX => ~out'.finished
         /\ (/\ engine.mStop # TRACK_TICKS_MAX
             /\ GetCurrentPosition + WEBAUDIO_BLOCK_SIZE >= engine.mStop
             /\ GetCurrentPosition + WEBAUDIO_BLOCK_SIZE > engine.mStart)
              => (out'.finished /\ out'.output = "null")
         /\ GetCurrentPosition + WEBAUDIO_BLOCK_SIZE <= engine.mStart
              => (~out'.finished /\ out'.output = "null")]_vars

\* A looping source played a block, was stopped, and the block that reached
\* the stop time set finished.
C27_Witness ==
    /\ out.op = "ProduceAudioBlock"
    /\ engine.mLoop = "IsLooping"
    /\ engine.mStop # TRACK_TICKS_MAX
    /\ LastPosition > 0
    /\ LastPosition + WEBAUDIO_BLOCK_SIZE >= engine.mStop
    /\ out.finished
    /\ out.output = "null"

\* C28: a Start on a node whose Start was called before throws and sends the
\* engine nothing, whatever the first Start found.
C28_StartOnce ==
    [][(node.mStartCalled /\ out'.op = "Start") =>
         (out'.threw /\ out'.sent = {} /\ engine' = engine
            /\ node' = node)]_vars

\* The first Start had a buffer and a stream but an empty range and set
\* nothing; the second Start threw.
C28_Witness ==
    /\ out.op = "Start"
    /\ out.threw
    /\ node.mStartCalled
    /\ ~node.mBuffer.null
    /\ node.mStream
    /\ engine = NewEngine

\* C29: a Stop before any Start throws and leaves the engine alone; a Stop
\* after Start does not throw, and on a live stream it sets STOP to
\* max(0, when), whatever STOP was before.
C29_StopSetsStop ==
    [][out'.op = "Stop" =>
         IF ~node.mStartCalled
         THEN out'.threw /\ out'.sent = {} /\ engine' = engine
         ELSE /\ ~out'.threw
              /\ node.mStream =>
                   /\ out'.sent = {"STOP"}
                   /\ engine'.mStop = StreamTimeToTicks(Max(0, out'.when))
                   /\ engine' = [engine EXCEPT !.mStop = engine'.mStop]]_vars

\* A Stop with a time above zero set STOP on a source that had played a block.
C29_Witness ==
    /\ out.op = "Stop"
    /\ ~out.threw
    /\ out.when > 0
    /\ node.mStream
    /\ stream.blocks > 0
    /\ ~engine.mBuffer.null
    /\ engine.mStop = StreamTimeToTicks(out.when)

\* C30: over blocks NotLooping stays, WillLoop stays or becomes IsLooping,
\* IsLooping stays, and WillLoop becomes IsLooping only in a block whose end
\* is at or past min(mStart + mLoopEnd - mOffset, mStop).
C30_LoopStateMonotone ==
    [][BlockStep =>
         /\ engine.mLoop = "NotLooping" => engine'.mLoop = "NotLooping"
         /\ engine.mLoop = "WillLoop" => engine'.mLoop \in {"WillLoop", "IsLooping"}
         /\ engine.mLoop = "IsLooping" => engine'.mLoop = "IsLooping"
         /\ (engine.mLoop = "WillLoop" /\ engine'.mLoop = "IsLooping") =>
              GetCurrentPosition + WEBAUDIO_BLOCK_SIZE
                 >= Min(engine.mStart + engine.mLoopEnd - engine.mOffset,
                        engine.mStop)]_vars

\* The first block of a source about to loop reached the loop point and moved
\* it to IsLooping.
C30_Witness ==
    /\ out.op = "ProduceAudioBlock"
    /\ stream.blocks = 1
    /\ engine.mLoop = "IsLooping"
    /\ LastPosition + WEBAUDIO_BLOCK_SIZE
          >= Min(engine.mStart + engine.mLoopEnd - engine.mOffset, engine.mStop)

\* C31: whenever the engine is in loop mode its loop length,
\* mLoopEnd - mLoopStart as Start sent them, is above zero, and no block
\* takes the remainder by a loop length of zero.
C31_LoopLengthPositive ==
    /\ engine.mLoop # "NotLooping" => engine.mLoopEnd - engine.mLoopStart > 0
    /\ ~DividesByZero(engine, GetCurrentPosition)
    /\ ~stream.trapped

====
